---- MODULE Spec2Model ----
(***************************************************************************)
(* Model of the extraction-and-download engine of the repository:          *)
(* DownloadManager (src/server/services/downloader.ts) running on the      *)
(* in-memory store MemStorage (src/unnamed/part_003).                      *)
(*                                                                         *)
(* Scheduling.  The program runs on one event loop.  MemStorage methods    *)
(* contain no I/O, so an `await storage.x()` resumes in a microtask of the *)
(* same turn; the code between two waits on the network, the file system   *)
(* stream, the archive generator or a timer is one atomic step.  The pool  *)
(* coordinator (downloadImagesWithConcurrency) is stepped one loop         *)
(* iteration at a time; while a coordinator or parseThreadUrl is runnable  *)
(* (Busy) no I/O completion, timer or API call is delivered, because the   *)
(* microtask queue is drained before the next event-loop turn.             *)
(*                                                                         *)
(* Five specifications share the variables.  Spec is the manager on        *)
(* MemStorage.  PgSpec is the same program for a session started once,     *)
(* with the data handler's un-awaited progress update applied at a later   *)
(* time, as PostgresStorage (src/unnamed/part_004) does.  StoreSpec drives *)
(* MemStorage alone through the IStorage interface, with several sessions. *)
(* ScraperSpec calls ViperGirlsScraper (src/server/services/scraper.ts)    *)
(* alone: parseThreadUrl on a URL, scrapeThreadPage on a page content,     *)
(* getFullResolutionUrl on a hosting page.  NamingSpec applies the record  *)
(* creation of executeDownload, with generateFilename, to the references   *)
(* of one scraped page.                                                    *)
(*                                                                         *)
(* The model follows one session id.  The process starts with an empty     *)
(* store and an empty downloads directory.  A target file path is          *)
(* identified by the position of its reference in the scraped list (slot), *)
(* the same thread content giving the same file names on every scrape;     *)
(* Spec takes the names of one scrape as distinct, NamingSpec examines     *)
(* whether generateFilename makes them so.                                 *)
(***************************************************************************)
EXTENDS Integers, Sequences, FiniteSets, TLC

\* ---- bounds -------------------------------------------------------------
MaxRefs    == 2   \* scraped references per pipeline execution
MaxLimit   == 2   \* largest concurrentLimit a request carries
MaxRuns    == 2   \* startDownload calls that get past the registry check
MaxRetries == 1   \* retry timers allowed to fire per image record
MaxPages   == 2   \* largest toPage (fromPage is 1)
MaxSessions    == 2   \* sessions created in the store specification
MaxStoreImages == 3   \* image records created in the store specification
MaxPosts   == 2   \* posts of a thread page in the scraper specification
MaxAnchors == 2   \* links of a post in the scraper specification
MaxPathLen == 4   \* symbols after /threads/ in a thread URL's path
MaxPageImgs == 2  \* <img> elements of a hosting page
MaxClock   == 2   \* readings of Date.now() while the records are created

\* ---- program constants --------------------------------------------------
DefaultLimit == 3 \* session.concurrentLimit || 3
SliderMax    == 8 \* the largest value of the client's concurrency slider
LongRun      == 6 \* \d{6,} in the third pattern of parseThreadUrl

Runs     == 1..MaxRuns
NoRun    == 0
ImageIds == 1..(MaxRuns * MaxRefs)
Slots    == 1..MaxRefs
NoSession == [status |-> "absent"]

VARIABLES
  session,           \* MemStorage.downloadSessions: the record of the session
  downloadedImages,  \* MemStorage.downloadedImages: sequence, id = index
  activeDownloads,   \* DownloadManager.activeDownloads: registered run or NoRun
  runs,              \* one frame per executeDownload call
  attempts,          \* downloadSingleImage calls and retry timers per image and run
  files,             \* target file paths that exist on disk
  sessionDir,        \* downloads/session_<id> exists
  zipFile,           \* downloads/session_<id>.zip exists
  store,             \* MemStorage with several sessions, driven through IStorage
  writes,            \* PostgresStorage: un-awaited progress updates in flight
  scraper            \* ViperGirlsScraper called alone: the last call and its result

vars == <<session, downloadedImages, activeDownloads, runs, attempts, files,
          sessionDir, zipFile, store, writes, scraper>>

\* the fields of the session object that executeDownload and its callees read
NoConfig == [concurrentLimit |-> 0, retryEnabled |-> FALSE, skipExisting |-> FALSE,
             outputFormat |-> "individual", customDirectory |-> FALSE,
             fromPage |-> 0, toPage |-> 0, threadUrlValid |-> FALSE]

\* MemStorage after its constructor
EmptyStore == [downloadSessions |-> {}, downloadedImages |-> {},
               currentSessionId |-> 1, currentImageId |-> 1]

\* error: the reason executeDownload's promise rejected with ("" = none)
IdleRun == [pc |-> "idle", session |-> NoConfig, page |-> 0, allImages |-> 0,
            pendingImages |-> <<>>, imageIndex |-> 0, poolActive |-> 0,
            settled |-> FALSE, error |-> ""]

Init ==
  /\ session = NoSession
  /\ downloadedImages = <<>>
  /\ activeDownloads = NoRun
  /\ runs = [r \in Runs |-> IdleRun]
  /\ attempts = [i \in ImageIds |-> [r \in Runs |-> "none"]]
  /\ files = {}
  /\ sessionDir = FALSE
  /\ zipFile = FALSE
  /\ store = EmptyStore
  /\ writes = {}
  /\ scraper = [call |-> "none"]

\* ---- variants of the code used to test the properties -------------------
\* deleteDownloadSession without the cascade to the image records
DeleteSessionOnly(st, id) ==
  [store |-> [st EXCEPT !.downloadSessions = {s \in @ : s.id # id}],
   result |-> \E s \in st.downloadSessions : s.id = id]

\* the skip check left out
NoSkipCheck(i, r) == FALSE

\* the catch block of executeDownload storing the status only
RunFailedNoMessage(r, msg) ==
  /\ session' = IF session = [status |-> "absent"] THEN session
                ELSE [session EXCEPT !.status = "failed"]
  /\ activeDownloads' = 0

\* the scrape loop stepping over a page
SkipPage(p) == p + 2

\* getDownloadProgress taking the active downloads from the pool counters
\* instead of the store
DownloadProgressFromPool ==
  [overallProgress |-> 0, activeDownloads |-> [r \in Runs |-> runs[r].poolActive]]

\* stage 5 entered whatever the output format
ArchiveAlways(r) == TRUE

\* startDownload without the registry check
NeverInProgress == FALSE

\* parseThreadUrl trying the <id>-name pattern before the name.<id> pattern
SecondPatternFirst(m1, m2, m3) ==
  IF m2 # <<>> THEN m2 ELSE IF m1 # <<>> THEN m1 ELSE m3

\* ---- helpers ------------------------------------------------------------
\* images.filter(img => img.status === s).length
CountStatus(imgs, s) == Cardinality({i \in DOMAIN imgs : imgs[i].status = s})

\* images.filter(img => img.status === 'pending'), as ids in store order
PendingIds(imgs) ==
  SelectSeq([i \in 1..Len(imgs) |-> i], LAMBDA i : imgs[i].status = "pending")

\* session.concurrentLimit || 3
EffectiveLimit(c) == IF c = 0 THEN DefaultLimit ELSE c
ConcurrentLimit(r) == EffectiveLimit(runs[r].session.concurrentLimit)

\* the session object startDownload read and hands to executeDownload
Snapshot(s) == [f \in DOMAIN NoConfig |-> s[f]]

\* the microtask queue is not empty: a coordinator or the parser is runnable
Busy == \E r \in Runs : runs[r].pc \in {"parse", "pool", "spin"}

\* an executeDownload call has not returned yet
Running(r) == runs[r].pc \in {"parse", "scrape", "pool", "wait", "spin", "archive"}

\* ---- storage / route: create a session ----------------------------------
\* concurrentLimit values a request can carry: the schema takes any integer;
\* only the client's slider keeps to 1..SliderMax
RequestLimits == {-1, 0} \cup (1..MaxLimit) \cup {SliderMax + 1}

CreateDownloadSession ==
  /\ session = NoSession
  /\ \E lim \in RequestLimits, retry \in BOOLEAN, skip \in BOOLEAN,
        fmt \in {"individual", "zip"}, custom \in BOOLEAN,
        to \in 1..MaxPages, valid \in BOOLEAN :
       session' = [status |-> "pending", totalImages |-> 0, completedImages |-> 0,
                   failedImages |-> 0, errorMessage |-> "",
                   concurrentLimit |-> lim, retryEnabled |-> retry,
                   skipExisting |-> skip, outputFormat |-> fmt,
                   customDirectory |-> custom, fromPage |-> 1, toPage |-> to,
                   threadUrlValid |-> valid]
  /\ UNCHANGED <<zipFile, store, writes, scraper, downloadedImages, activeDownloads, runs, attempts, files, sessionDir>>

\* ---- DownloadManager.startDownload ---------------------------------------
\* the frame the next accepted startDownload call uses
NextRun == CHOOSE r \in Runs : runs[r].pc = "idle" /\ \A q \in Runs : q < r => runs[q].pc # "idle"

\* if (this.activeDownloads.has(sessionId))
AlreadyInProgress == activeDownloads # NoRun

\* the error startDownload throws before it starts a pipeline ("" = none)
StartDownloadError ==
  IF session = NoSession THEN "Download session not found"
  ELSE IF AlreadyInProgress THEN "Download already in progress"
  ELSE ""

StartDownload ==
  /\ ~Busy
  /\ IF session = NoSession \/ AlreadyInProgress
       THEN UNCHANGED <<session, activeDownloads, runs>>
       ELSE /\ \E r \in Runs : runs[r].pc = "idle"
            /\ session' = [session EXCEPT !.status = "active"]
            /\ runs' = [runs EXCEPT ![NextRun].pc = "parse",
                                    ![NextRun].session = Snapshot(session)]
            /\ activeDownloads' = NextRun
  /\ UNCHANGED <<zipFile, store, writes, scraper, downloadedImages, attempts, files, sessionDir>>

\* ---- DownloadManager.executeDownload ------------------------------------
InvalidUrlError == "Invalid ViperGirls thread URL - could not extract thread ID"
ScrapeError     == "Failed to scrape page"
ArchiveError    == "Session download directory not found"

\* the catch block of executeDownload, then the finally of startDownload
RunFailed(r, msg) ==
  /\ session' = IF session = NoSession THEN session
                ELSE [session EXCEPT !.status = "failed", !.errorMessage = msg]
  /\ activeDownloads' = NoRun

\* the completed update of executeDownload, then the finally of startDownload
RunCompleted(r) ==
  /\ session' = IF session = NoSession THEN session
                ELSE [session EXCEPT !.status = "completed"]
  /\ activeDownloads' = NoRun

ParseThreadUrl(r) ==
  /\ runs[r].pc = "parse"
  /\ IF runs[r].session.threadUrlValid
       THEN /\ runs' = [runs EXCEPT ![r].pc = "scrape", ![r].page = runs[r].session.fromPage]
            /\ UNCHANGED <<session, activeDownloads>>
       ELSE /\ runs' = [runs EXCEPT ![r].pc = "failed", ![r].error = InvalidUrlError]
            /\ RunFailed(r, InvalidUrlError)
  /\ UNCHANGED <<zipFile, store, writes, scraper, downloadedImages, attempts, files, sessionDir>>

\* the records createDownloadedImage appends for n scraped references
NewImages(n) == [k \in 1..n |-> [status |-> "pending", progress |-> 0, slot |-> k,
                                 retries |-> 0, errorMessage |-> ""]]

\* for (...; page <= session.toPage; page++)
NextPage(p) == p + 1

\* one page fetch returns: k references, or an error
ScrapeThreadPage(r) ==
  /\ ~Busy
  /\ runs[r].pc = "scrape"
  /\ \/ /\ runs' = [runs EXCEPT ![r].pc = "failed", ![r].error = ScrapeError]
        /\ RunFailed(r, ScrapeError)
        /\ UNCHANGED downloadedImages
     \/ \E k \in 0..(MaxRefs - runs[r].allImages) :
          LET n == runs[r].allImages + k
              imgs == downloadedImages \o NewImages(n)
          IN IF runs[r].page < runs[r].session.toPage
               THEN /\ runs' = [runs EXCEPT ![r].allImages = n, ![r].page = NextPage(@)]
                    /\ UNCHANGED <<session, downloadedImages, activeDownloads>>
               ELSE /\ session' = IF session = NoSession THEN session
                                  ELSE [session EXCEPT !.totalImages = n]
                    /\ downloadedImages' = imgs
                    /\ runs' = [runs EXCEPT ![r].allImages = n, ![r].pc = "pool",
                                            ![r].pendingImages = PendingIds(imgs)]
                    /\ UNCHANGED activeDownloads
  /\ UNCHANGED <<zipFile, store, writes, scraper, attempts, files, sessionDir>>

\* ---- DownloadManager.downloadImagesWithConcurrency ----------------------
CanSubmit(r) == /\ runs[r].poolActive < ConcurrentLimit(r)
                /\ runs[r].imageIndex < Len(runs[r].pendingImages)
LoopCond(r) == \/ runs[r].imageIndex < Len(runs[r].pendingImages)
               \/ runs[r].poolActive > 0

\* inner while: start one download; downloadSingleImage runs to its first I/O
PoolSubmit(r) ==
  /\ runs[r].pc = "pool"
  /\ CanSubmit(r)
  /\ LET img == runs[r].pendingImages[runs[r].imageIndex + 1] IN
       /\ runs' = [runs EXCEPT ![r].imageIndex = @ + 1, ![r].poolActive = @ + 1]
       /\ downloadedImages' = [downloadedImages EXCEPT ![img].status = "downloading"]
       /\ attempts' = [attempts EXCEPT ![img][r] = "resolving"]
  /\ UNCHANGED <<zipFile, store, writes, scraper, session, activeDownloads, files, sessionDir>>

\* if (activeDownloads >= concurrentLimit) await Promise.race(downloadPromises):
\* suspends while no promise of the array has settled; with a settled promise
\* in the array the race resolves in a microtask and the loop runs on
PoolRace(r) ==
  /\ runs[r].pc = "pool"
  /\ ~CanSubmit(r) /\ LoopCond(r)
  /\ runs[r].poolActive >= ConcurrentLimit(r)
  /\ runs' = [runs EXCEPT ![r].pc = IF runs[r].settled THEN "spin" ELSE "wait"]
  /\ UNCHANGED <<zipFile, store, writes, scraper, session, downloadedImages, activeDownloads, attempts, files, sessionDir>>

\* the outer while iterates with nothing to submit and no await
PoolSpin(r) ==
  /\ runs[r].pc = "pool"
  /\ ~CanSubmit(r) /\ LoopCond(r)
  /\ runs[r].poolActive < ConcurrentLimit(r)
  /\ runs' = [runs EXCEPT ![r].pc = "spin"]
  /\ UNCHANGED <<zipFile, store, writes, scraper, session, downloadedImages, activeDownloads, attempts, files, sessionDir>>

\* getSessionDownloadDir: where the workers of a run write their files
WorkerDirectory(r) ==
  IF runs[r].session.customDirectory THEN "customDirectory/session"
  ELSE "downloads/session"

\* createZipArchive: path.join(this.downloadDir, `session_${session.id}`)
ArchiveDirectory(r) == "downloads/session"

\* if (session.outputFormat === 'zip')
ArchiveRequested(r) == runs[r].session.outputFormat = "zip"

\* the loop ends; Promise.allSettled; then stage 5 (createZipArchive up to
\* generateAsync) or the completed update
PoolExit(r) ==
  /\ runs[r].pc = "pool"
  /\ ~LoopCond(r)
  /\ IF ArchiveRequested(r)
       THEN IF sessionDir
              THEN /\ runs' = [runs EXCEPT ![r].pc = "archive"]
                   /\ UNCHANGED <<session, activeDownloads>>
              ELSE /\ runs' = [runs EXCEPT ![r].pc = "failed", ![r].error = ArchiveError]
                   /\ RunFailed(r, ArchiveError)
       ELSE /\ runs' = [runs EXCEPT ![r].pc = "completed"]
            /\ RunCompleted(r)
  /\ UNCHANGED <<zipFile, store, writes, scraper, downloadedImages, attempts, files, sessionDir>>

\* zip.generateAsync resolves; the zip is written; the completed update
CreateZipArchive(r) ==
  /\ ~Busy
  /\ runs[r].pc = "archive"
  /\ runs' = [runs EXCEPT ![r].pc = "completed"]
  /\ RunCompleted(r)
  /\ zipFile' = TRUE
  /\ UNCHANGED <<store, writes, scraper, downloadedImages, attempts, files, sessionDir>>

\* ---- DownloadManager.downloadSingleImage ---------------------------------
\* the call was made by the pool: its promise is in downloadPromises
Tracked(st) == st \in {"resolving", "streaming"}

\* .finally(() => activeDownloads--), and Promise.race resumes a suspended pool
Settle(rs, r, st) ==
  IF Tracked(st)
    THEN [rs EXCEPT ![r].poolActive = @ - 1, ![r].settled = TRUE,
                    ![r].pc = IF @ = "wait" THEN "pool" ELSE @]
    ELSE rs

\* the catch block: failed update, failed count, retry timer
ImageFailed(i, r, msg) ==
  LET imgs == [downloadedImages EXCEPT ![i].status = "failed", ![i].errorMessage = msg] IN
    /\ downloadedImages' = imgs
    /\ session' = IF session = NoSession THEN session
                  ELSE [session EXCEPT !.failedImages = CountStatus(imgs, "failed")]
    /\ attempts' = [attempts EXCEPT ![i][r] = IF runs[r].session.retryEnabled THEN "timer" ELSE "done"]
    /\ runs' = Settle(runs, r, attempts[i][r])

\* if (session.skipExisting && fs.existsSync(filePath))
SkipExisting(i, r) ==
  runs[r].session.skipExisting /\ downloadedImages[i].slot \in files

\* getFullResolutionUrl returns or throws; on success the session directory is
\* made and the skipExisting check runs, then the image request is issued
GetFullResolutionUrl(i, r) ==
  /\ ~Busy
  /\ attempts[i][r] \in {"resolving", "retryResolving"}
  /\ \/ /\ ImageFailed(i, r, "Failed to extract image URL")
        /\ UNCHANGED <<sessionDir>>
     \/ /\ sessionDir' = (sessionDir \/ ~runs[r].session.customDirectory)
        /\ IF SkipExisting(i, r)
             THEN /\ downloadedImages' = [downloadedImages EXCEPT ![i].status = "completed",
                                                                  ![i].progress = 100]
                  /\ attempts' = [attempts EXCEPT ![i][r] = "done"]
                  /\ runs' = Settle(runs, r, attempts[i][r])
             ELSE /\ attempts' = [attempts EXCEPT ![i][r] =
                        IF @ = "resolving" THEN "streaming" ELSE "retryStreaming"]
                  /\ UNCHANGED <<downloadedImages, runs>>
        /\ UNCHANGED session
  /\ UNCHANGED <<zipFile, store, writes, scraper, activeDownloads, files>>

\* the image request and the stream pipeline end: the file is written and the
\* completed update and count run, or the request fails (no file), or the
\* stream fails after createWriteStream made the file
DownloadStream(i, r) ==
  /\ ~Busy
  /\ attempts[i][r] \in {"streaming", "retryStreaming"}
  /\ \/ LET imgs == [downloadedImages EXCEPT ![i].status = "completed", ![i].progress = 100] IN
          /\ files' = files \cup {downloadedImages[i].slot}
          /\ downloadedImages' = imgs
          /\ session' = IF session = NoSession THEN session
                        ELSE [session EXCEPT !.completedImages = CountStatus(imgs, "completed")]
          /\ attempts' = [attempts EXCEPT ![i][r] = "done"]
          /\ runs' = Settle(runs, r, attempts[i][r])
     \/ /\ ImageFailed(i, r, "Request failed")
        /\ UNCHANGED files
     \/ /\ ImageFailed(i, r, "aborted")
        /\ files' = files \cup {downloadedImages[i].slot}
  /\ UNCHANGED <<zipFile, store, writes, scraper, activeDownloads, sessionDir>>

\* parseInt(response.headers['content-length'] || '0', 10): absent, or 2 bytes
ContentLengths == {0, 2}
\* downloadedBytes after a chunk: less than the declared length, or more (the
\* stream axios hands over is decompressed, content-length counts the
\* compressed body)
ReceivedBytes == {1, 3}

\* fileSize > 0 ? Math.round((downloadedBytes / fileSize) * 100) : 0
Progress(downloadedBytes, fileSize) ==
  IF fileSize > 0 THEN (200 * downloadedBytes + fileSize) \div (2 * fileSize) ELSE 0

\* the values a data event can write
ChunkProgress ==
  {Progress(b, size) : b \in ReceivedBytes, size \in ContentLengths}

\* response.data.on('data', ...): storage.updateDownloadedImage(id, { progress })
DownloadChunk(i, r) ==
  /\ ~Busy
  /\ attempts[i][r] \in {"streaming", "retryStreaming"}
  /\ \E p \in ChunkProgress :
       downloadedImages' = [downloadedImages EXCEPT ![i].progress = p]
  /\ UNCHANGED <<session, activeDownloads, runs, attempts, files, sessionDir, zipFile, store, writes, scraper>>

\* setTimeout(() => this.downloadSingleImage(session, image), 5000) fires
RetryTimer(i, r) ==
  /\ ~Busy
  /\ attempts[i][r] = "timer"
  /\ downloadedImages[i].retries < MaxRetries
  /\ downloadedImages' = [downloadedImages EXCEPT ![i].status = "downloading",
                                                   ![i].retries = @ + 1]
  /\ attempts' = [attempts EXCEPT ![i][r] = "retryResolving"]
  /\ UNCHANGED <<zipFile, store, writes, scraper, session, activeDownloads, runs, files, sessionDir>>

\* ---- DownloadManager.cancelDownload -------------------------------------
\* the store and the registry as cancelDownload leaves them on return
AfterCancel ==
  IF activeDownloads # NoRun
    THEN [activeDownloads |-> NoRun,
          session |-> IF session = NoSession THEN session
                      ELSE [session EXCEPT !.status = "cancelled"]]
    ELSE [activeDownloads |-> activeDownloads, session |-> session]

\* MobileDownloadManager.cancelDownload: the store as the call leaves it; the
\* update is made whether or not the id is in that manager's registry
MobileAfterCancel ==
  [session |-> IF session = NoSession THEN session
               ELSE [session EXCEPT !.status = "cancelled"]]

CancelDownload ==
  /\ ~Busy
  /\ activeDownloads' = AfterCancel.activeDownloads
  /\ session' = AfterCancel.session
  /\ UNCHANGED <<zipFile, store, writes, scraper, downloadedImages, runs, attempts, files, sessionDir>>

\* ---- DownloadManager.getDownloadProgress ---------------------------------
\* storage.getActiveDownloadsForSession (MemStorage): the Downloading records
ActiveDownloadsForSession ==
  {i \in DOMAIN downloadedImages : downloadedImages[i].status = "downloading"}

\* Math.round((completedImages / totalImages) * 80), totalImages > 0
RoundedShare(completed, total) == (160 * completed + total) \div (2 * total)

\* storage.getActiveDownloadsForSession (PostgresStorage): every record whose
\* sessionId is the session's, whatever its status
PgActiveDownloadsForSession == DOMAIN downloadedImages

\* the DownloadProgress object built from the session and the records that
\* getActiveDownloadsForSession returned
ProgressView(active) ==
  IF session = NoSession THEN [error |-> "Session not found"]
  ELSE
    LET total == session.totalImages
        completed == session.completedImages
        branch ==
          IF session.status = "completed" THEN "completed"
          ELSE IF session.status # "active" THEN "initial"
          ELSE IF total = 0 THEN "parsing"
          ELSE IF active # {} THEN "downloading"
          ELSE IF session.outputFormat = "zip" /\ completed = total THEN "archiving"
          ELSE "initial"
    IN [stage |-> IF branch = "initial" THEN "parsing" ELSE branch,
        overallProgress |->
          CASE branch = "completed" -> 100
            [] branch = "parsing" -> 10
            [] branch = "downloading" -> RoundedShare(completed, total) + 15
            [] branch = "archiving" -> 95
            [] OTHER -> 0,
        completedImages |-> completed,
        totalImages |-> total,
        failedImages |-> session.failedImages,
        activeDownloads |-> [i \in active |->
                               [filename |-> downloadedImages[i].slot,
                                progress |-> downloadedImages[i].progress]]]

\* the DownloadProgress object the call returns, on each storage
DownloadProgress   == ProgressView(ActiveDownloadsForSession)
PgDownloadProgress == ProgressView(PgActiveDownloadsForSession)

\* the call reads the store and writes nothing
GetDownloadProgress ==
  /\ ~Busy
  /\ UNCHANGED vars

\* ---- DownloadManager.getZipDownloadPath ----------------------------------
ZipNotFound == "ZIP file not found"
GetZipDownloadPath ==
  IF zipFile THEN [path |-> "downloads/session.zip"] ELSE [error |-> ZipNotFound]

\* ---- the program ---------------------------------------------------------
Next ==
  \/ CreateDownloadSession
  \/ StartDownload
  \/ CancelDownload
  \/ GetDownloadProgress
  \/ \E r \in Runs :
       \/ ParseThreadUrl(r)
       \/ ScrapeThreadPage(r)
       \/ PoolSubmit(r)
       \/ PoolRace(r)
       \/ PoolSpin(r)
       \/ PoolExit(r)
       \/ CreateZipArchive(r)
  \/ \E i \in ImageIds, r \in Runs :
       \/ GetFullResolutionUrl(i, r)
       \/ DownloadChunk(i, r)
       \/ DownloadStream(i, r)
       \/ RetryTimer(i, r)

Spec == Init /\ [][Next]_vars

\* ---- the same program on PostgresStorage ---------------------------------
\* PostgresStorage.updateDownloadedImage is a query on a pooled connection.  The
\* data handler does not await it, so the update reaches the table at any
\* later time.  The updates the code awaits stay one step with the code that
\* follows them.  The session is started once.
DownloadChunkPg(i, r) ==
  /\ ~Busy
  /\ attempts[i][r] \in {"streaming", "retryStreaming"}
  /\ \E p \in ChunkProgress : writes' = writes \cup {<<i, p>>}
  /\ UNCHANGED <<session, downloadedImages, activeDownloads, runs, attempts, files,
                 sessionDir, zipFile, store, scraper>>

\* UPDATE downloaded_images SET progress = p WHERE id = i
ApplyProgressUpdate(i, p) ==
  /\ <<i, p>> \in writes
  /\ writes' = writes \ {<<i, p>>}
  /\ downloadedImages' = [downloadedImages EXCEPT ![i].progress = p]
  /\ UNCHANGED <<session, activeDownloads, runs, attempts, files, sessionDir,
                 zipFile, store, scraper>>

StartDownloadOnce == runs[1].pc = "idle" /\ StartDownload

NextPg ==
  \/ CreateDownloadSession
  \/ StartDownloadOnce
  \/ CancelDownload
  \/ GetDownloadProgress
  \/ \E r \in Runs :
       \/ ParseThreadUrl(r)
       \/ ScrapeThreadPage(r)
       \/ PoolSubmit(r)
       \/ PoolRace(r)
       \/ PoolSpin(r)
       \/ PoolExit(r)
       \/ CreateZipArchive(r)
  \/ \E i \in ImageIds, r \in Runs :
       \/ GetFullResolutionUrl(i, r)
       \/ DownloadChunkPg(i, r)
       \/ DownloadStream(i, r)
       \/ RetryTimer(i, r)
  \/ \E i \in ImageIds, p \in ChunkProgress : ApplyProgressUpdate(i, p)

PgSpec == Init /\ [][NextPg]_vars

\* ---- MemStorage driven through IStorage, several sessions ----------------
SessionIds == 1..MaxSessions
mainVars == <<session, downloadedImages, activeDownloads, runs, attempts, files,
              sessionDir, zipFile, writes, scraper>>

MemCreateDownloadSession ==
  /\ store.currentSessionId <= MaxSessions
  /\ store' = [store EXCEPT
                 !.downloadSessions = @ \cup {[id |-> store.currentSessionId,
                                               status |-> "pending"]},
                 !.currentSessionId = @ + 1]
  /\ UNCHANGED mainVars

MemUpdateDownloadSession(id, status) ==
  /\ store' = [store EXCEPT
                 !.downloadSessions = {IF s.id = id THEN [s EXCEPT !.status = status]
                                       ELSE s : s \in @}]
  /\ UNCHANGED mainVars

\* the record is stored whether or not a session with that id exists; the
\* caller is executeDownload, which holds the session it was started with: a
\* session that was created, and that DELETE /api/downloads/:id may have
\* removed since (the route does not look at the registry)
MemCreateDownloadedImage(sessionId) ==
  /\ sessionId < store.currentSessionId
  /\ store.currentImageId <= MaxStoreImages
  /\ store' = [store EXCEPT
                 !.downloadedImages = @ \cup {[id |-> store.currentImageId,
                                               sessionId |-> sessionId,
                                               status |-> "pending"]},
                 !.currentImageId = @ + 1]
  /\ UNCHANGED mainVars

\* the store after deleteDownloadSession(id), and the value it returns
DeleteResult(st, id) ==
  [store |-> [st EXCEPT !.downloadedImages = {img \in @ : img.sessionId # id},
                        !.downloadSessions = {s \in @ : s.id # id}],
   result |-> \E s \in st.downloadSessions : s.id = id]

MemDeleteDownloadSession(id) ==
  /\ store' = DeleteResult(store, id).store
  /\ UNCHANGED mainVars

StoreNext ==
  \/ MemCreateDownloadSession
  \/ \E id \in SessionIds, status \in {"active", "completed"} :
       MemUpdateDownloadSession(id, status)
  \/ \E id \in SessionIds : MemCreateDownloadedImage(id)
  \/ \E id \in SessionIds : MemDeleteDownloadSession(id)

StoreSpec == Init /\ [][StoreNext]_vars

\* ---- ViperGirlsScraper called alone --------------------------------------
managerVars == <<session, downloadedImages, activeDownloads, runs, attempts, files,
                 sessionDir, zipFile, store, writes>>

SeqsUpTo(S, n) == UNION {[1..k -> S] : k \in 0..n}

\* A link target is its hostname (a sequence of labels) and its path (one
\* segment, a sequence of labels joined by dots); its text is the hostname
\* labels, a slash, the path labels.
HostingSites ==
  {<<"imgur", "com">>, <<"imagetwist", "com">>, <<"postimg", "cc">>,
   <<"imgbox", "com">>, <<"turboimagehost", "com">>, <<"imagebam", "com">>,
   <<"imagevenue", "com">>}

\* link targets found on a thread page: three hosting pages, a page of
\* another site, and a page of another site whose path names a hosting site
Hrefs ==
  {[hostname |-> <<"imgur", "com">>, path |-> <<"a">>],
   [hostname |-> <<"imgur", "com">>, path |-> <<"b">>],
   [hostname |-> <<"www", "imgbox", "com">>, path |-> <<"a">>],
   [hostname |-> <<"example", "com">>, path |-> <<"a">>],
   [hostname |-> <<"example", "com">>, path |-> <<"imgur", "com">>]}

UrlText(href) == href.hostname \o <<"/">> \o href.path

\* String.prototype.includes
Includes(text, part) ==
  \E k \in 1..(Len(text) - Len(part) + 1) :
    SubSeq(text, k, k + Len(part) - 1) = part

\* hostingSites.some(site => url.includes(site))
IsImageHostingUrl(href) ==
  \E site \in HostingSites : Includes(UrlText(href), site)

\* new URL(url).hostname.replace('www.', '')
ExtractHostingSite(href) ==
  IF \E k \in 1..(Len(href.hostname) - 1) : href.hostname[k] = "www"
    THEN LET k == CHOOSE j \in 1..(Len(href.hostname) - 1) :
                    /\ href.hostname[j] = "www"
                    /\ \A m \in 1..(j - 1) : href.hostname[m] # "www"
         IN SubSeq(href.hostname, 1, k - 1)
              \o SubSeq(href.hostname, k + 1, Len(href.hostname))
    ELSE href.hostname

\* an <a> of a post: its href, and whether it wraps an <img>
Anchors == [href : Hrefs, img : BOOLEAN]

\* the elements the first working selector matched, each with its links
PageContents == SeqsUpTo(SeqsUpTo(Anchors, MaxAnchors), MaxPosts)

\* $(element).find('a').each(...): one reference pushed per qualifying link
PostImages(post) ==
  LET kept == SelectSeq(post, LAMBDA a : IsImageHostingUrl(a.href) /\ a.img)
  IN [k \in 1..Len(kept) |-> [hostingPage |-> kept[k].href,
                               hostingSite |-> ExtractHostingSite(kept[k].href)]]

\* posts.each(...): the references of all posts, in document order
RECURSIVE ScrapedImages(_)
ScrapedImages(posts) ==
  IF posts = <<>> THEN <<>>
  ELSE PostImages(Head(posts)) \o ScrapedImages(Tail(posts))

\* The scraper keeps no state between calls (its fields are the base URL and
\* the user agent), so each call is examined from the state before any call.
ScraperScrapeThreadPage ==
  /\ scraper.call = "none"
  /\ \E posts \in PageContents :
       scraper' = [call |-> "scrapeThreadPage", posts |-> posts,
                   images |-> ScrapedImages(posts)]
  /\ UNCHANGED managerVars

\* -- parseThreadUrl.  A URL is: whether new URL() accepts it, whether its
\* path holds "/threads/", the symbols of the path after that, and its page
\* query parameter.  Symbols: a letter, ".", "-", "/", one digit, six digits.
PathSymbols == {"a", ".", "-", "/", "d", "dddddd"}
PageParams  == {"none", "3", "x"}
ThreadUrls  == [wellFormed : BOOLEAN, threads : BOOLEAN,
                rest : SeqsUpTo(PathSymbols, MaxPathLen), page : PageParams]

IsDigits(t) == t \in {"d", "dddddd"}
Digits(t)   == IF t = "dddddd" THEN LongRun ELSE 1
NoMatch     == <<>>

\* the last position of the digit run that holds position i
RECURSIVE RunEnd(_, _)
RunEnd(r, i) == IF i < Len(r) /\ IsDigits(r[i + 1]) THEN RunEnd(r, i + 1) ELSE i

\* the number of digits in r[i..j]
RECURSIVE RunDigits(_, _, _)
RunDigits(r, i, j) == IF i > j THEN 0 ELSE Digits(r[i]) + RunDigits(r, i + 1, j)

\* the capture <<first, last>> of the leftmost position in S, or NoMatch
Leftmost(r, S) ==
  IF S = {} THEN NoMatch
  ELSE LET i == CHOOSE k \in S : \A m \in S : k <= m IN <<i, RunEnd(r, i)>>

\* /\/threads\/.*?\.(\d+)/
Pattern1(r) ==
  Leftmost(r, {i \in 2..Len(r) : r[i - 1] = "." /\ IsDigits(r[i])})

\* /\/threads\/(\d+)-/
Pattern2(r) ==
  IF /\ Len(r) >= 2 /\ IsDigits(r[1])
     /\ RunEnd(r, 1) < Len(r) /\ r[RunEnd(r, 1) + 1] = "-"
    THEN <<1, RunEnd(r, 1)>> ELSE NoMatch

\* /\/threads\/[^\/]*?(\d{6,})/
Pattern3(r) ==
  Leftmost(r, {i \in 1..Len(r) :
                 /\ IsDigits(r[i]) /\ (i = 1 \/ ~IsDigits(r[i - 1]))
                 /\ \A k \in 1..(i - 1) : r[k] # "/"
                 /\ RunDigits(r, i, RunEnd(r, i)) >= LongRun})

\* pageParam ? parseInt(pageParam, 10) : undefined
CurrentPage(page) ==
  IF page = "none" THEN "undefined" ELSE IF page = "x" THEN "NaN" ELSE page

\* each later pattern is tried only if (!pathMatch)
FirstMatch(m1, m2, m3) ==
  IF m1 # NoMatch THEN m1 ELSE IF m2 # NoMatch THEN m2 ELSE m3

\* the capture of each pattern on a URL's path
Matches(url) ==
  IF url.threads
    THEN <<Pattern1(url.rest), Pattern2(url.rest), Pattern3(url.rest)>>
    ELSE <<NoMatch, NoMatch, NoMatch>>

\* what parseThreadUrl returns or throws for a URL
ParseResult(url) ==
  IF ~url.wellFormed THEN [error |-> "Invalid URL"]
  ELSE
    LET m == FirstMatch(Matches(url)[1], Matches(url)[2], Matches(url)[3])
    IN IF m = NoMatch THEN [error |-> InvalidUrlError]
       ELSE [threadId |-> m, currentPage |-> CurrentPage(url.page)]

ScraperParseThreadUrl ==
  /\ scraper.call = "none"
  /\ \E url \in ThreadUrls :
       scraper' = [call |-> "parseThreadUrl", url |-> url, result |-> ParseResult(url)]
  /\ UNCHANGED managerVars

\* -- getFullResolutionUrl.  A hosting page is the sequence of its <img>
\* elements in document order, each with the extension its src contains and
\* whether the src contains "thumbnail" or "preview".
GenericSelectors == <<"jpg", "jpeg", "png", "gif", "webp">>
SrcExtensions    == {"jpg", "jpeg", "png", "gif", "webp", "bmp"}
PageImgs         == [ext : SrcExtensions, flagged : BOOLEAN]
HostingPages     == SeqsUpTo(PageImgs, MaxPageImgs)

\* switch (hostingSite): the sites with an adapter of their own
DedicatedSites ==
  {<<"imgur", "com">>, <<"imagetwist", "com">>, <<"postimg", "cc">>,
   <<"imgbox", "com">>}

\* $(selector).first(): the position of the first <img> with the extension
FirstWith(imgs, ext) ==
  IF \E k \in DOMAIN imgs : imgs[k].ext = ext
    THEN CHOOSE k \in DOMAIN imgs :
           /\ imgs[k].ext = ext
           /\ \A m \in 1..(k - 1) : imgs[m].ext # ext
    ELSE 0

\* for (const selector of selectors): the first selector whose first match is
\* not flagged gives the result, from selector s on; 0 when none does
RECURSIVE GenericFrom(_, _)
GenericFrom(imgs, s) ==
  IF s > Len(GenericSelectors) THEN 0
  ELSE LET k == FirstWith(imgs, GenericSelectors[s])
       IN IF k # 0 /\ ~imgs[k].flagged THEN k ELSE GenericFrom(imgs, s + 1)

ExtractUrlError == "Failed to extract image URL"

\* extractGenericImageUrl inside getFullResolutionUrl's try/catch
ExtractGenericImageUrl(imgs) ==
  IF GenericFrom(imgs, 1) = 0 THEN [error |-> ExtractUrlError]
  ELSE [src |-> GenericFrom(imgs, 1)]

\* a page fetched and handed to the adapter of its site; an adapter of a
\* dedicated site finds its element or throws
ScraperGetFullResolutionUrl ==
  /\ scraper.call = "none"
  /\ \E href \in Hrefs, imgs \in HostingPages :
       IF ExtractHostingSite(href) \in DedicatedSites
         THEN \E found \in BOOLEAN :
                scraper' = [call |-> "getFullResolutionUrl", adapter |-> "dedicated",
                            href |-> href, imgs |-> imgs,
                            result |-> IF found THEN [src |-> 0]
                                       ELSE [error |-> ExtractUrlError]]
         ELSE scraper' = [call |-> "getFullResolutionUrl", adapter |-> "generic",
                          href |-> href, imgs |-> imgs,
                          result |-> ExtractGenericImageUrl(imgs)]
  /\ UNCHANGED managerVars

ScraperNext ==
  \/ ScraperScrapeThreadPage
  \/ ScraperGetFullResolutionUrl
  \/ ScraperParseThreadUrl

ScraperSpec == Init /\ [][ScraperNext]_vars

\* ---- executeDownload, stage 3, applied to one scraped page ---------------
\* Date.now() read once per reference, in list order: it never goes back, and
\* two reads can fall in the same millisecond
ClockReadings(n) ==
  {t \in [1..n -> 1..MaxClock] : \A j, k \in 1..n : j <= k => t[j] <= t[k]}

\* generateFilename: the last path segment when it contains a dot, else
\* `${hostingSite}_${timestamp}.jpg`
GenerateFilename(image, timestamp) ==
  IF Len(image.hostingPage.path) > 1
    THEN [lastSegment |-> image.hostingPage.path]
    ELSE [hostingSite |-> image.hostingSite, timestamp |-> timestamp]

\* for (const scrapedImage of allImages) storage.createDownloadedImage(...)
CreateRecords ==
  /\ scraper.call = "none"
  /\ \E posts \in PageContents :
       LET images == ScrapedImages(posts) IN
         \E t \in ClockReadings(Len(images)) :
           scraper' = [call |-> "createRecords",
                       records |-> [k \in 1..Len(images) |->
                                      [originalUrl |-> images[k].hostingPage,
                                       pageNumber |-> 1,
                                       filename |-> GenerateFilename(images[k], t[k])]]]
  /\ UNCHANGED managerVars

NamingNext ==
  \/ CreateRecords

NamingSpec == Init /\ [][NamingNext]_vars

\* ---- properties ----------------------------------------------------------
HasSession == session # NoSession
Ended(r)   == runs[r].pc \in {"completed", "failed"}
\* the run got through stages 1-3: every page was scraped and the records made
Scraped(r) == runs[r].pc \in {"pool", "wait", "spin", "archive", "completed"}
                \/ (runs[r].pc = "failed" /\ runs[r].error = ArchiveError)
RetryPending == \E i \in ImageIds, r \in Runs : attempts[i][r] = "timer"

\* C1: the number of the session's images with status Downloading is at most
\* the session's concurrency limit, in every reachable state.
C1_DownloadingWithinLimit ==
  (HasSession /\ session.concurrentLimit \in 1..SliderMax) =>
    CountStatus(downloadedImages, "downloading") <= session.concurrentLimit

\* C2: at most one executeDownload pipeline of the session is running at any
\* time, for every sequence of startDownload and cancelDownload calls.
C2_OnePipelinePerSession ==
  Cardinality({r \in Runs : Running(r)}) <= 1

\* C3: every change of the session's status is Pending->Active,
\* Active->Completed, Active->Failed or Active->Cancelled.
SessionTransitions ==
  {<<"pending", "active">>, <<"active", "completed">>,
   <<"active", "failed">>, <<"active", "cancelled">>}

C3_StatusMonotonic ==
  [][(HasSession /\ session'.status # session.status)
       => <<session.status, session'.status>> \in SessionTransitions]_vars

\* C4: the stored totalImages equals completedImages + failedImages + the
\* number of Pending records + the number of Downloading records.
C4_CountersPartitionTotal ==
  HasSession =>
    session.totalImages =
      session.completedImages + session.failedImages
        + CountStatus(downloadedImages, "pending")
        + CountStatus(downloadedImages, "downloading")

\* C5: completedImages + failedImages never exceeds totalImages.
C5_DoneWithinTotal ==
  HasSession =>
    session.completedImages + session.failedImages <= session.totalImages

\* C6: with retryEnabled, an image is re-attempted at most once: no retry
\* timer is ever scheduled for an image whose re-attempt has already run.
C6_SingleRetry ==
  \A i \in DOMAIN downloadedImages :
    /\ downloadedImages[i].retries <= 1
    /\ downloadedImages[i].retries = 1 => \A r \in Runs : attempts[i][r] # "timer"

\* C7: when some images of a run fail, the run still submits every image and
\* ends with the completed update, never in executeDownload's catch block.
C7_FailureIsolated ==
  \A r \in Runs :
    (/\ Ended(r) /\ Scraped(r)
     /\ \E k \in DOMAIN runs[r].pendingImages :
          downloadedImages[runs[r].pendingImages[k]].errorMessage # "")
    => /\ runs[r].pc = "completed"
       /\ \A k \in DOMAIN runs[r].pendingImages :
            downloadedImages[runs[r].pendingImages[k]].status # "pending"

\* C8: while the archive step runs or the session is Completed, no image is
\* Pending or Downloading and no re-attempt is still scheduled.
C8_TerminalBeforeArchive ==
  (HasSession /\ (session.status = "completed" \/ \E r \in Runs : runs[r].pc = "archive"))
    => /\ CountStatus(downloadedImages, "pending") = 0
       /\ CountStatus(downloadedImages, "downloading") = 0
       /\ ~RetryPending

\* C9: a started session whose pages all scrape and whose downloads all
\* succeed (skips included) does not hang, and its pipeline ends with the
\* session Completed, totalImages = n and completedImages = n.
CleanSingleRun ==
  /\ Scraped(1) /\ runs[2].pc = "idle"
  /\ runs[1].session.concurrentLimit \in 1..SliderMax
  /\ \A i \in DOMAIN downloadedImages : downloadedImages[i].errorMessage = ""

C9_CleanRunCompletes ==
  CleanSingleRun =>
    /\ runs[1].pc # "spin"
    /\ Ended(1) => /\ session.status = "completed"
                   /\ session.totalImages = runs[1].allImages
                   /\ session.completedImages = runs[1].allImages

\* C10: cancelDownload called while the session's pipeline is running returns
\* with the session Cancelled and the id out of the registry.
C10_CancelTakesEffect ==
  (HasSession /\ ~Busy /\ \E r \in Runs : Running(r))
    => /\ AfterCancel.session.status = "cancelled"
       /\ AfterCancel.activeDownloads = NoRun

\* C11: a start request whose thread URL matches no parser pattern leaves no
\* session record in the store (and so none that is Active or Failed).
C11_InvalidUrlNoSession ==
  HasSession => session.threadUrlValid

\* C12: once the scrape of a page has failed, the session is Failed with the
\* error text, and it has no image record and no image download.
ScrapeFailed(r) == runs[r].pc = "failed" /\ runs[r].error = ScrapeError

C12_ScrapeFailureAborts ==
  (HasSession /\ \E r \in Runs : ScrapeFailed(r))
    => /\ session.status = "failed"
       /\ session.errorMessage = ScrapeError
       /\ downloadedImages = <<>>
       /\ \A i \in ImageIds, r \in Runs : attempts[i][r] = "none"

\* C13: with skipExisting, an attempt that finds its target file on disk makes
\* the image Completed with progress 100, issues no request for the image
\* bytes and leaves the files on disk as they are.
C13_SkipExistingNoFetch ==
  [][\A i \in DOMAIN downloadedImages, r \in Runs :
       (/\ attempts[i][r] \in {"resolving", "retryResolving"}
        /\ attempts'[i][r] # attempts[i][r]
        /\ downloadedImages'[i].status # "failed"
        /\ runs[r].session.skipExisting
        /\ downloadedImages[i].slot \in files)
       => /\ downloadedImages'[i].status = "completed"
          /\ downloadedImages'[i].progress = 100
          /\ attempts'[i][r] = "done"
          /\ files' = files]_vars

\* an image was completed by the skip path: no completed count was written
C13_Witness ==
  /\ HasSession /\ session.skipExisting /\ session.completedImages = 0
  /\ \E i \in DOMAIN downloadedImages, r \in Runs :
       /\ downloadedImages[i].status = "completed"
       /\ downloadedImages[i].progress = 100
       /\ downloadedImages[i].slot \in files
       /\ attempts[i][r] = "done"

\* C14: every image with status Completed has progress 100.
C14_CompletedHasFullProgress ==
  \A i \in DOMAIN downloadedImages :
    downloadedImages[i].status = "completed" => downloadedImages[i].progress = 100

C16_PagesAscending ==
  [][\A r \in Runs :
       /\ runs'[r].page # runs[r].page
            => \/ /\ runs[r].pc = "parse"
                  /\ runs'[r].page = runs[r].session.fromPage
               \/ /\ runs[r].pc = "scrape" /\ runs'[r].pc = "scrape"
                  /\ runs'[r].page = runs[r].page + 1
                  /\ runs'[r].page <= runs[r].session.toPage
       /\ (runs[r].pc = "scrape" /\ runs'[r] # runs[r])
            => \/ runs'[r].page = runs[r].page + 1
               \/ runs'[r].pc # "scrape"]_vars

\* a run scraped page 1 and then page 2
C16_Witness ==
  \E r \in Runs : Scraped(r) /\ runs[r].page = 2 /\ runs[r].session.fromPage = 1

\* C17: getDownloadProgress writes nothing to the store or the registry, and
\* the view it returns depends on the store only: as long as the session and
\* its image records do not change, every call returns the same view.
C17_ProgressIsPureRead ==
  [][/\ GetDownloadProgress => UNCHANGED <<session, downloadedImages, activeDownloads>>
     /\ UNCHANGED <<session, downloadedImages>> => DownloadProgress' = DownloadProgress]_vars

\* a call is served during the download phase, with an image in its view
C17_Witness ==
  /\ HasSession /\ ~Busy
  /\ DownloadProgress.stage = "downloading"
  /\ DOMAIN DownloadProgress.activeDownloads # {}

\* C18: for a session started once with a limit in 1..8, overallProgress is 10 while it is Active
\* and scraping, 15 + round(80 * completedImages / totalImages) (in 15..95)
\* while its pool waits for downloads, in 95..100 during the archive step, and
\* 100 once it is Completed.
C18_OverallProgressByPhase ==
  (HasSession /\ ~Busy /\ runs[2].pc = "idle"
     /\ session.concurrentLimit \in 1..SliderMax)
    => LET p == DownloadProgress.overallProgress IN
         /\ (session.status = "active" /\ runs[1].pc = "scrape") => p = 10
         /\ (session.status = "active" /\ runs[1].pc = "wait")
              => /\ p = 15 + RoundedShare(session.completedImages, session.totalImages)
                 /\ p \in 15..95
         /\ (session.status = "active" /\ runs[1].pc = "archive") => p \in 95..100
         /\ session.status = "completed" => p = 100

\* C19: a deleteDownloadSession(id) that returns true leaves no session with
\* that id and no image record with that sessionId in the store, and leaves
\* the records of every other session as they were.
C19_DeleteCascades ==
  [][\A id \in SessionIds :
       (/\ DeleteResult(store, id).result
        /\ \E s \in store.downloadSessions : s.id = id
        /\ \A s \in store'.downloadSessions : s.id # id)
       => /\ \A img \in store'.downloadedImages : img.sessionId # id
          /\ store'.downloadSessions = {s \in store.downloadSessions : s.id # id}
          /\ {img \in store'.downloadedImages : img.sessionId # id}
               = {img \in store.downloadedImages : img.sessionId # id}]_vars

\* session 1 and its image record 1 were deleted, session 2 keeps its record
C19_Witness ==
  /\ store.currentSessionId > 2 /\ store.currentImageId > 2
  /\ \A s \in store.downloadSessions : s.id = 2
  /\ \E s \in store.downloadSessions : s.id = 2
  /\ \A img \in store.downloadedImages : img.id # 1
  /\ \E img \in store.downloadedImages : img.sessionId = 2

C21_StartRejectedWhileRunning ==
  /\ [](HasSession /\ activeDownloads # NoRun
          => StartDownloadError = "Download already in progress")
  /\ [][(HasSession /\ activeDownloads # NoRun /\ StartDownload)
          => UNCHANGED <<activeDownloads, session, downloadedImages, runs, attempts>>]_vars

\* a call can arrive while the registered pipeline has an image Downloading
C21_Witness ==
  /\ HasSession /\ ~Busy /\ activeDownloads # NoRun
  /\ Running(activeDownloads)
  /\ CountStatus(downloadedImages, "downloading") > 0
  /\ StartDownloadError = "Download already in progress"

\* C22: every pool that runs uses an effective limit between 1 and 8.
C22_PoolLimitInRange ==
  \A r \in Runs :
    runs[r].pc \in {"pool", "wait", "spin"} => ConcurrentLimit(r) \in 1..SliderMax

\* C23: the list scrapeThreadPage returns for a page holds no two references
\* with the same hosting-page URL.
C23_NoDuplicateReferences ==
  scraper.call = "scrapeThreadPage"
    => \A j, k \in DOMAIN scraper.images :
         scraper.images[j].hostingPage = scraper.images[k].hostingPage => j = k

\* C24: parseThreadUrl tries name.<id>, then <id>-name, then a run of six or
\* more digits, and returns the capture of the first pattern that matches,
\* whatever the later patterns would capture; it fails with the invalid-URL
\* error when none matches; without a page parameter the result has no
\* currentPage and is not an error.
C24_FirstPatternWins ==
  (scraper.call = "parseThreadUrl" /\ scraper.url.wellFormed) =>
    LET m   == Matches(scraper.url)
        res == scraper.result
        any == m[1] # NoMatch \/ m[2] # NoMatch \/ m[3] # NoMatch
    IN /\ any => "threadId" \in DOMAIN res
       /\ m[1] # NoMatch => res.threadId = m[1]
       /\ (m[1] = NoMatch /\ m[2] # NoMatch) => res.threadId = m[2]
       /\ (m[1] = NoMatch /\ m[2] = NoMatch /\ m[3] # NoMatch) => res.threadId = m[3]
       /\ ~any => res = [error |-> InvalidUrlError]
       /\ (any /\ scraper.url.page = "none") => res.currentPage = "undefined"

\* a URL such as /threads/1-.2 on which the first two patterns capture
\* different ids, parsed without a page parameter
C24_Witness ==
  /\ scraper.call = "parseThreadUrl"
  /\ scraper.url.wellFormed
  /\ scraper.url.page = "none"
  /\ Matches(scraper.url)[1] # NoMatch
  /\ Matches(scraper.url)[2] # NoMatch
  /\ Matches(scraper.url)[1] # Matches(scraper.url)[2]
  /\ scraper.result.threadId = Matches(scraper.url)[1]

\* C25: on both storages getActiveDownloadsForSession returns exactly the
\* Downloading image records of the session, so getDownloadProgress reports
\* the same view whichever storage holds the records (compared at the
\* moments a progress request can be served).
C25_ActiveDownloadsAgree ==
  (HasSession /\ ~Busy) =>
    /\ ActiveDownloadsForSession =
         {i \in DOMAIN downloadedImages : downloadedImages[i].status = "downloading"}
    /\ PgActiveDownloadsForSession = ActiveDownloadsForSession
    /\ PgDownloadProgress = DownloadProgress

\* C26: every change of an image record's status is Pending -> Downloading,
\* Downloading -> Completed, Downloading -> Failed or Failed -> Downloading;
\* the last happens only when the session has retryEnabled; a Completed
\* record never changes status again.
ImageTransitions ==
  {<<"pending", "downloading">>, <<"downloading", "completed">>,
   <<"downloading", "failed">>, <<"failed", "downloading">>}

C26_ImageStatusTransitions ==
  [][\A i \in DOMAIN downloadedImages :
       (i \in DOMAIN downloadedImages' /\
        downloadedImages'[i].status # downloadedImages[i].status)
         => /\ <<downloadedImages[i].status, downloadedImages'[i].status>>
                 \in ImageTransitions
            /\ downloadedImages[i].status = "failed" => session.retryEnabled]_vars

\* C27: when a run enters its download phase, before it has started any
\* image, the store holds exactly one record per reference the run scraped,
\* each Pending with progress 0, and totalImages is their number; while a run
\* is in its download phase or archiving, totalImages never changes.
PastScraping(r) == runs[r].pc \in {"pool", "wait", "spin", "archive"}

C27_RecordsBeforeDownload ==
  /\ [](\A r \in Runs :
          (HasSession /\ runs[r].pc = "pool" /\ runs[r].imageIndex = 0)
            => /\ Len(downloadedImages) = runs[r].allImages
               /\ session.totalImages = runs[r].allImages
               /\ \A i \in DOMAIN downloadedImages :
                    /\ downloadedImages[i].status = "pending"
                    /\ downloadedImages[i].progress = 0)
  /\ [][(HasSession /\ \E r \in Runs : PastScraping(r))
          => session'.totalImages = session.totalImages]_vars

\* C28: with a limit in 1..8 the coordinator of downloadImagesWithConcurrency
\* never iterates without yielding: whenever it has nothing to submit and
\* downloads in flight it is suspended until one settles, for every number
\* of images, fewer than the limit included.
C28_CoordinatorSuspends ==
  \A r \in Runs :
    ConcurrentLimit(r) \in 1..SliderMax => runs[r].pc # "spin"

\* C29: with or without customDirectory, the archive step of a run reads the
\* directory its workers wrote to: a run that asked for a zip and has a
\* Completed image with its file on disk does not fail for a missing session
\* directory when it leaves the download phase.
C29_ArchiveReadsWorkerDirectory ==
  \A r \in Runs :
    (/\ ArchiveRequested(r)
     /\ runs[r].pc \in {"archive", "completed", "failed"}
     /\ \E i \in DOMAIN downloadedImages :
          /\ downloadedImages[i].status = "completed"
          /\ downloadedImages[i].slot \in files)
      => /\ ArchiveDirectory(r) = WorkerDirectory(r)
         /\ runs[r].error # ArchiveError

\* C30: every image record's progress is an integer in 0..100, whatever
\* content length the response declared and however many bytes arrived.
C30_ProgressWithinPercent ==
  \A i \in DOMAIN downloadedImages : downloadedImages[i].progress \in 0..100

\* C31: every reference scrapeThreadPage returns has a hosting-page URL whose
\* hostname is an allowlisted hosting site (or a subdomain of one); a link to
\* another host is not returned, even when an allowlisted name occurs
\* elsewhere in its URL.
OnAllowlist(hostname) ==
  \E site \in HostingSites :
    /\ Len(hostname) >= Len(site)
    /\ SubSeq(hostname, Len(hostname) - Len(site) + 1, Len(hostname)) = site

C31_HostnameOnAllowlist ==
  scraper.call = "scrapeThreadPage"
    => \A k \in DOMAIN scraper.images :
         OnAllowlist(scraper.images[k].hostingPage.hostname)

\* C32: for a hosting page without a dedicated adapter, the generic adapter
\* returns the first image of the page, in document order, whose source has
\* a common image extension and is not flagged thumbnail or preview; it
\* fails only when the page has no such image.
Qualifying(imgs) ==
  {k \in DOMAIN imgs :
     /\ imgs[k].ext \in {"jpg", "jpeg", "png", "gif", "webp"}
     /\ ~imgs[k].flagged}

C32_GenericFirstQualifying ==
  (scraper.call = "getFullResolutionUrl" /\ scraper.adapter = "generic") =>
    IF Qualifying(scraper.imgs) = {}
      THEN "error" \in DOMAIN scraper.result
      ELSE /\ "src" \in DOMAIN scraper.result
           /\ scraper.result.src \in Qualifying(scraper.imgs)
           /\ \A k \in Qualifying(scraper.imgs) : scraper.result.src <= k

\* C33: once cancelDownload has returned for a running session (the session
\* is Cancelled and has not been started again), no image of the session
\* goes from Pending to Downloading and no retry puts a Failed image back to
\* Downloading; downloads in flight only run to their end.
C33_NoSubmitAfterCancel ==
  [][(HasSession /\ session.status = "cancelled")
       => \A i \in DOMAIN downloadedImages :
            ~(/\ downloadedImages[i].status \in {"pending", "failed"}
              /\ downloadedImages'[i].status = "downloading")]_vars

\* C34: at no time are two download attempts for the same image record in
\* flight, whatever start, cancel and retry events its session has seen.
InFlight(st) == st \in {"resolving", "streaming", "retryResolving", "retryStreaming"}

C34_OneAttemptPerImage ==
  \A i \in DOMAIN downloadedImages :
    \A r1, r2 \in Runs :
      (InFlight(attempts[i][r1]) /\ InFlight(attempts[i][r2])) => r1 = r2

\* C35: the session id is in the active registry exactly while a pipeline
\* execution of the session is running, and the end of one execution never
\* removes the registry entry that belongs to another execution.
C35_RegistryMatchesPipelines ==
  /\ [](HasSession => ((activeDownloads # NoRun) <=> \E r \in Runs : Running(r)))
  /\ [][\A r \in Runs :
          (Running(r) /\ ~Running(r)' /\ activeDownloads # NoRun /\ activeDownloads # r)
            => activeDownloads' = activeDownloads]_vars

\* C36: every image record's sessionId is the id of a session that exists in
\* the store, also when deleteDownloadSession runs while the pipeline of that
\* session is still scraping or creating its records.
C36_ImagesHaveSession ==
  \A img \in store.downloadedImages :
    \E s \in store.downloadSessions : s.id = img.sessionId

\* C37: during the one run of a session in which no image fails, successive
\* polls never see overallProgress decrease while the session is Active or
\* when it has become Completed: a poll taken after the scraping, which
\* reported 10, does not report less, and no step between two moments at
\* which a poll can be served lowers the value.
NoImageFailed ==
  /\ \A i \in DOMAIN downloadedImages : downloadedImages[i].status # "failed"
  /\ session.failedImages = 0

C37_ProgressNeverDecreases ==
  /\ [](( /\ HasSession /\ ~Busy /\ runs[2].pc = "idle" /\ Scraped(1)
          /\ session.status \in {"active", "completed"} /\ NoImageFailed)
         => DownloadProgress.overallProgress >= 10)
  /\ [][(/\ HasSession /\ ~Busy /\ session.status = "active"
          /\ runs[2].pc = "idle"
          /\ ~Busy' /\ session'.status \in {"active", "completed"}
          /\ NoImageFailed')
           => DownloadProgress'.overallProgress >= DownloadProgress.overallProgress]_vars

\* C38: cancelDownload on a session without a running pipeline (never
\* started, or ended Completed or Failed) changes neither the session record
\* nor the registry, in the desktop manager and in the mobile manager; a
\* Completed or Failed session does not become Cancelled.
NoPipelineRunning == \A r \in Runs : ~Running(r)

C38_CancelWithoutPipelineIsNoOp ==
  (HasSession /\ NoPipelineRunning)
    => /\ AfterCancel.session = session
       /\ AfterCancel.activeDownloads = activeDownloads
       /\ MobileAfterCancel.session = session

\* C39: within one session two distinct image records with the same page
\* number never have the same target filename, so no two workers write the
\* same path and skipExisting never finds the file of another image.
C39_FilenamesDistinct ==
  scraper.call = "createRecords"
    => \A j, k \in DOMAIN scraper.records :
         (/\ scraper.records[j].pageNumber = scraper.records[k].pageNumber
          /\ scraper.records[j].filename = scraper.records[k].filename) => j = k

====
